---------------------------- MODULE Spec2Model ----------------------------
(* A model of Stackup.Run (src/sup.go): credential resolution, the        *)
(* concurrent connect phase, and the command / task loop with its         *)
(* goroutines (stream copies, shared-input fan-out, signal relay,         *)
(* completion waits).                                                     *)
EXTENDS Integers, Sequences, FiniteSets, TLC

VARIABLES
    input,              \* the arguments of Run and the world it runs in
    pc,                 \* position of the goroutine executing Run
    result,             \* what Run returned ("none" while it runs)
    publicKeysSigners,  \* the process-wide signer list
    warnings,           \* number of "Warning: ..." lines written to stderr
    bastion,            \* "nil" | "connected" | "failed"
    hostUser,           \* host.User of every host (workers fill it in)
    conn,               \* per-host connect worker: idle/connecting/ok/failed
    unit,               \* the client each worker built
    wg,                 \* counter of the WaitGroup in use
    clientCh, errCh,    \* the two buffered channels
    chClosed,           \* both channels are closed
    clients, maxLen,    \* the drained clients and the widest prefix
    deferred,           \* deferred remote.Close() calls, oldest first
    closeCount,         \* number of Close calls made on every unit
    ci, tasks, ti, k,   \* command index, its task list, task index, client index
    writers,            \* stdin writers collected for the task being started
    translated,         \* number of Task Translator invocations
    trFailed,           \* the Task Translator returned an error
    doneTasks,          \* tasks of the current command run to completion
    startCalls,         \* number of start-task (Client.Run) calls of the task
    proc,               \* the process every unit runs for the current task
    copyG,              \* live stdout/stderr copy goroutines
    stdinG,             \* live shared-input goroutines
    waitG,              \* live completion-wait goroutines
    owed,               \* started (task, unit) pairs whose Wait has not succeeded
    exitCode, exitBy,   \* os.Exit: its code, and the failure that caused it
    relayG,             \* live signal-relay goroutines, each with its channel
    sigsLeft,           \* interrupts the terminal may still send
    ioLogged            \* the task whose stream error was logged last

connVars == <<bastion, hostUser, conn, unit, clientCh, errCh, chClosed,
              clients, maxLen, deferred, closeCount>>
connFixed == <<bastion, hostUser, conn, unit, clientCh, errCh, chClosed,
               clients, maxLen, deferred>>
credVars == <<publicKeysSigners, warnings>>
loopVars == <<ci, tasks, ti, k, writers, translated, trFailed, doneTasks,
              startCalls>>
goVars == <<proc, copyG, stdinG, waitG, owed>>
exitVars == <<exitCode, exitBy>>
relayVars == <<relayG, sigsLeft>>
taskVars == <<loopVars, goVars, exitVars, relayVars, ioLogged>>
vars == <<input, pc, result, credVars, connVars, wg, taskVars>>

----------------------------------------------------------------------------
(* Bounds.                                                                 *)
\* Commands given to one run.
MaxCommands == 2
\* Shared-input goroutines alive at once.
MaxStdinLive == 1
\* Interrupts sent to one run.
MaxSignals == 1

----------------------------------------------------------------------------
(* Strings are sequences of one-character strings.                         *)
Localhost == <<"l","o","c","a","l","h","o","s","t">>
LoopbackPrefix == <<"1","2","7",".">>

HasPrefix(s, p) == Len(s) >= Len(p) /\ SubSeq(s, 1, Len(p)) = p

HasPrefixNoDot(s, p) == Len(s) >= Len(p) - 1 /\ SubSeq(s, 1, Len(p) - 1) = SubSeq(p, 1, Len(p) - 1)

IsLocalBuggy(hostname) == hostname = Localhost \/ HasPrefixNoDot(hostname, LoopbackPrefix)

\* line 129: host.Hostname == "localhost" || strings.HasPrefix(host.Hostname, "127.")
IsLocal(hostname) == hostname = Localhost \/ HasPrefix(hostname, LoopbackPrefix)

----------------------------------------------------------------------------
(* The hosts, networks and credential worlds Run is tried on.              *)
Host(name, user) == [Hostname |-> name, User |-> user]

HLocalhost == Host(Localhost, <<>>)
HLoop      == Host(<<"1","2","7",".","1">>, <<"u">>)
HNearLoop  == Host(<<"1","2","7","0">>, <<>>)
HW1        == Host(<<"w","1">>, <<>>)
HW22       == Host(<<"w","2","2">>, <<"u">>)

Net(hosts, hasBastion, password, identityFile) ==
    [Hosts |-> hosts, Bastion |-> hasBastion, User |-> <<"r">>,
     Password |-> password, IdentityFile |-> identityFile]

\* The file a path names: absent, or a key that is well-formed or not and
\* protected by a passphrase ("" for none).
NoFile == [exists |-> FALSE, valid |-> FALSE, pass |-> "", id |-> "none"]
KeyFile(valid, pass, id) == [exists |-> TRUE, valid |-> valid, pass |-> pass, id |-> id]

World(agent, agentSigners, idFile, home, prior) ==
    [agent |-> agent, agentSigners |-> agentSigners, idFile |-> idFile,
     home |-> home, prior |-> prior]

PlainWorld == World(FALSE, <<>>, NoFile, <<>>, <<>>)

\* Run's arguments and world: the network, the number of commands, the
\* prefix switch of the Stackup, and the credential world.  In such a world
\* no interrupt is sent and no stream fails.
RunInput(net, ncmds, prefix, world) ==
    [net |-> net, ncmds |-> ncmds, prefix |-> prefix, world |-> world,
     sigs |-> 0, ioerr |-> FALSE]

\* The same run at a terminal that sends up to sigs interrupts, over streams
\* that may fail.
Troubled(in, sigs) == [in EXCEPT !.sigs = sigs, !.ioerr = TRUE]

\* The networks, each with the prefix switch it is run with.
Networks ==
    { [net |-> Net(<<HLocalhost, HW1>>, FALSE, "", ""), prefix |-> TRUE],
      [net |-> Net(<<HW1, HW22>>, TRUE, "pw", ""), prefix |-> TRUE],
      [net |-> Net(<<HLoop, HNearLoop>>, TRUE, "pw", ""), prefix |-> FALSE] }

CredNet(password, identityFile) == Net(<<HW1>>, FALSE, password, identityFile)

Worlds ==
    { World(agent, as, f, home, prior) :
        agent \in BOOLEAN,
        as \in {<<>>, <<"a1", "a2">>},
        f \in {NoFile, KeyFile(TRUE, "", "key"), KeyFile(TRUE, "pw", "key"),
               KeyFile(FALSE, "", "key")},
        home \in {<<>>, <<[pub |-> FALSE, file |-> KeyFile(TRUE, "", "id_rsa")],
                          [pub |-> TRUE, file |-> KeyFile(FALSE, "", "id_rsa.pub")],
                          [pub |-> FALSE, file |-> KeyFile(TRUE, "x", "id_dsa")]>>},
        prior \in {<<>>, <<"old">>} }

Inputs ==
    { RunInput(n.net, c, n.prefix, PlainWorld) :
        n \in Networks, c \in 0..MaxCommands }
    \cup
    { RunInput(CredNet(pw, idf), 1, FALSE, w) :
        pw \in {"", "pw"}, idf \in {"", "id"}, w \in Worlds }
    \cup
    { RunInput(Net(<<HW1>>, TRUE, "pw", "id"), 0, FALSE, w) :
        w \in {x \in Worlds : x.agent /\ x.agentSigners # <<>>} }
    \cup
    { Troubled(RunInput(CredNet("", ""), 1, FALSE, PlainWorld), MaxSignals) }

Net0 == input.net
NHosts == Len(Net0.Hosts)
HostIds == 1..NHosts

----------------------------------------------------------------------------
(* Credential resolution.                                                  *)

\* ssh.ParsePrivateKey (line 58): a well-formed key without passphrase.
ParsePrivateKey(f) == f.valid /\ f.pass = ""

\* ssh.ParsePrivateKeyWithPassphrase (line 61).
ParsePrivateKeyWithPassphrase(f, password) ==
    f.valid /\ f.pass # "" /\ f.pass = password

Failed(signers) == [err |-> TRUE, signers |-> signers]
Added(signers, f) == [err |-> FALSE, signers |-> Append(signers, f.id)]

\* addPublicKeySigner: the error it returns and the list it leaves.
AddPublicKeySigner(signers, f, password) ==
    IF ~f.exists THEN Failed(signers)
    ELSE IF ParsePrivateKey(f) THEN Added(signers, f)
    ELSE IF password # ""
         THEN IF ParsePrivateKeyWithPassphrase(f, password)
              THEN Added(signers, f)
              ELSE Failed(signers)
         ELSE Failed(signers)

\* lines 97-103: the default keys, public keys skipped, errors dropped.
RECURSIVE AddDefaultKeys(_, _, _)
AddDefaultKeys(signers, files, password) ==
    IF files = <<>> THEN signers
    ELSE IF Head(files).pub
         THEN AddDefaultKeys(signers, Tail(files), password)
         ELSE AddDefaultKeys(
                 AddPublicKeySigner(signers, Head(files).file, password).signers,
                 Tail(files), password)

\* lines 77-81
RunStartNoCheck ==
    /\ pc = "start"
    /\ pc' = "agent"
    /\ UNCHANGED <<result, taskVars, input, credVars, connVars, wg>>

RunStart ==
    /\ pc = "start"
    /\ IF input.ncmds = 0
       THEN pc' = "returned" /\ result' = "no commands to be run"
       ELSE pc' = "agent" /\ UNCHANGED result
    /\ UNCHANGED <<taskVars, input, credVars, connVars, wg>>

AgentSignersKept ==
    /\ pc = "agent"
    /\ pc' = "keys"
    /\ publicKeysSigners' =
         IF input.world.agent
         THEN publicKeysSigners \o input.world.agentSigners
         ELSE publicKeysSigners
    /\ UNCHANGED <<taskVars, input, result, warnings, connVars, wg>>

\* lines 84-88: with a reachable agent its signers replace the list.
DialAgent ==
    /\ pc = "agent"
    /\ pc' = "keys"
    /\ publicKeysSigners' =
         IF input.world.agent
         THEN input.world.agentSigners
         ELSE publicKeysSigners
    /\ UNCHANGED <<taskVars, input, result, warnings, connVars, wg>>

\* lines 90-104
LoadKeys ==
    /\ pc = "keys"
    /\ pc' = "bastion"
    /\ IF Net0.IdentityFile # ""
       THEN LET r == AddPublicKeySigner(publicKeysSigners, input.world.idFile,
                                        Net0.Password)
            IN /\ publicKeysSigners' = r.signers
               /\ warnings' = IF r.err THEN warnings + 1 ELSE warnings
       ELSE /\ publicKeysSigners' =
                 AddDefaultKeys(publicKeysSigners, input.world.home, Net0.Password)
            /\ UNCHANGED warnings
    /\ UNCHANGED <<taskVars, input, result, connVars, wg>>

----------------------------------------------------------------------------
(* The connect phase.                                                      *)

NoUnit == [kind |-> "none", via |-> "none"]

\* Escape sequences of the display colours; a prefix shows everything else.
Colors == << <<"ESC","[","1">>, <<"ESC","[","2">> >>
ResetColor == <<"ESC","[","0">>

\* line 150: Colors[i%len(Colors)], i counted from 0.
ColorOf(i) == Colors[((i - 1) % Len(Colors)) + 1]

\* Client.Prefix(): the prefix string and its visual length.
Prefix(i) ==
    LET h == Net0.Hosts[i]
    IN IF unit[i].kind = "local"
       THEN LET text == h.Hostname \o <<" ","|"," ">>
            IN [str |-> ResetColor \o text, len |-> Len(text)]
       ELSE LET text == hostUser[i] \o <<"@">> \o h.Hostname \o <<" ","|"," ">>
            IN [str |-> ColorOf(i) \o text \o ResetColor, len |-> Len(text)]

\* deferred calls run at return: one Close per registered defer.
RunDefers(ds) ==
    [i \in HostIds |->
        closeCount[i] + Cardinality({j \in 1..Len(ds) : ds[j] = i})]

BastionFailureIgnored ==
    /\ pc = "bastion"
    /\ IF ~Net0.Bastion
       THEN pc' = "spawn" /\ UNCHANGED <<bastion, result>>
       ELSE \E ok \in BOOLEAN :
              /\ bastion' = IF ok THEN "connected" ELSE "failed"
              /\ pc' = "spawn"
              /\ UNCHANGED result
    /\ UNCHANGED <<taskVars, input, credVars, hostUser, conn, unit, clientCh, errCh,
                   chClosed, clients, maxLen, deferred, closeCount, wg>>

\* lines 107-117
ConnectBastion ==
    /\ pc = "bastion"
    /\ IF ~Net0.Bastion
       THEN pc' = "spawn" /\ UNCHANGED <<bastion, result>>
       ELSE \E ok \in BOOLEAN :
              IF ok
              THEN bastion' = "connected" /\ pc' = "spawn" /\ UNCHANGED result
              ELSE /\ bastion' = "failed"
                   /\ pc' = "returned"
                   /\ result' = "connecting to bastion failed"
    /\ UNCHANGED <<taskVars, input, credVars, hostUser, conn, unit, clientCh, errCh,
                   chClosed, clients, maxLen, deferred, closeCount, wg>>

\* lines 119-125: the channels are made and one worker per host started.
SpawnConnect ==
    /\ pc = "spawn"
    /\ pc' = "wgwait"
    /\ wg' = wg + NHosts
    /\ conn' = [i \in HostIds |-> "start"]
    /\ UNCHANGED <<taskVars, input, result, credVars, bastion, hostUser, unit, clientCh,
                   errCh, chClosed, clients, maxLen, deferred, closeCount>>

ViaOf(hostname) ==
    IF IsLocal(hostname) THEN "local"
    ELSE IF bastion # "nil" THEN "bastion" ELSE "direct"

\* lines 129-155: a worker classifies its host, builds the client and
\* begins to connect it.
HostBegin(i) ==
    /\ conn[i] = "start"
    /\ LET h == Net0.Hosts[i]
           local == IsLocal(h.Hostname)
       IN /\ unit' = [unit EXCEPT ![i] =
                        [kind |-> IF local THEN "local" ELSE "remote",
                         via |-> ViaOf(h.Hostname)]]
          /\ hostUser' = [hostUser EXCEPT ![i] =
                            IF ~local /\ hostUser[i] = <<>>
                            THEN Net0.User ELSE hostUser[i]]
    /\ conn' = [conn EXCEPT ![i] = "connecting"]
    /\ UNCHANGED <<taskVars, input, pc, result, credVars, bastion, clientCh, errCh,
                   chClosed, clients, maxLen, deferred, closeCount, wg>>

HostFinishNoReturn(i) ==
    /\ conn[i] = "connecting"
    /\ \E ok \in BOOLEAN :
         IF ok
         THEN /\ clientCh' = IF unit[i].kind = "local"
                             THEN clientCh \o <<i, i>>
                             ELSE Append(clientCh, i)
              /\ conn' = [conn EXCEPT ![i] = "ok"]
              /\ UNCHANGED errCh
         ELSE /\ errCh' = Append(errCh, i)
              /\ conn' = [conn EXCEPT ![i] = "failed"]
              /\ UNCHANGED clientCh
    /\ wg' = wg - 1
    /\ UNCHANGED <<taskVars, input, pc, result, credVars, bastion, hostUser, unit,
                   chClosed, clients, maxLen, deferred, closeCount>>

\* lines 133-138, 155-165 and the deferred wg.Done(): the connect returns
\* and the worker sends its client or its error.
HostFinish(i) ==
    /\ conn[i] = "connecting"
    /\ \E ok \in BOOLEAN :
         IF ok
         THEN /\ Len(clientCh) < NHosts
              /\ clientCh' = Append(clientCh, i)
              /\ conn' = [conn EXCEPT ![i] = "ok"]
              /\ UNCHANGED errCh
         ELSE /\ Len(errCh) < NHosts
              /\ errCh' = Append(errCh, i)
              /\ conn' = [conn EXCEPT ![i] = "failed"]
              /\ UNCHANGED clientCh
    /\ wg' = wg - 1
    /\ UNCHANGED <<taskVars, input, pc, result, credVars, bastion, hostUser, unit,
                   chClosed, clients, maxLen, deferred, closeCount>>

ConnectWaitNoGate ==
    /\ pc = "wgwait"
    /\ chClosed' = TRUE
    /\ pc' = "drain"
    /\ UNCHANGED <<taskVars, input, result, credVars, bastion, hostUser, conn, unit,
                   clientCh, errCh, clients, maxLen, deferred, closeCount, wg>>

\* lines 168-170
ConnectWait ==
    /\ pc = "wgwait"
    /\ wg = 0
    /\ chClosed' = TRUE
    /\ pc' = "drain"
    /\ UNCHANGED <<taskVars, input, result, credVars, bastion, hostUser, conn, unit,
                   clientCh, errCh, clients, maxLen, deferred, closeCount, wg>>

RECURSIVE MaxPrefixLen(_)
MaxPrefixLen(cs) ==
    IF cs = <<>> THEN 0
    ELSE LET m == MaxPrefixLen(Tail(cs))
             l == Prefix(Head(cs)).len
         IN IF l > m THEN l ELSE m

RemoteOnly(cs) == SelectSeq(cs, LAMBDA i : unit[i].kind = "remote")

DrainIgnoringErrors ==
    /\ pc = "drain"
    /\ clients' = clientCh
    /\ clientCh' = <<>>
    /\ deferred' = RemoteOnly(clientCh)
    /\ maxLen' = MaxPrefixLen(clientCh)
    /\ pc' = "cmd"
    /\ ci' = 1
    /\ UNCHANGED <<errCh, result, closeCount>>
    /\ UNCHANGED <<input, credVars, bastion, hostUser, conn, unit, chClosed, wg,
                   tasks, ti, k, writers, translated, trFailed, doneTasks,
                   startCalls, goVars, exitVars,
                   relayVars, ioLogged>>

\* lines 172-186: both channels are drained; a connect error ends the run.
Drain ==
    /\ pc = "drain"
    /\ clients' = clientCh
    /\ clientCh' = <<>>
    /\ deferred' = RemoteOnly(clientCh)
    /\ maxLen' = MaxPrefixLen(clientCh)
    /\ IF errCh # <<>>
       THEN /\ errCh' = Tail(errCh)
            /\ pc' = "returned"
            /\ result' = "connecting to clients failed"
            /\ closeCount' = RunDefers(RemoteOnly(clientCh))
            /\ UNCHANGED ci
       ELSE /\ pc' = "cmd"
            /\ ci' = 1
            /\ UNCHANGED <<errCh, result, closeCount>>
    /\ UNCHANGED <<input, credVars, bastion, hostUser, conn, unit, chClosed, wg,
                   tasks, ti, k, writers, translated, trFailed, doneTasks,
                   startCalls, goVars, exitVars,
                   relayVars, ioLogged>>

----------------------------------------------------------------------------
(* The command and task loop.                                              *)

Task(cs, in) == [Clients |-> cs, Input |-> in]

\* The task lists a translation may hold: no task, one task bound to every
\* client (with or without a shared input stream), a task bound to the
\* first client only, with an input, followed by one bound to every client,
\* or a task bound to every client followed by one bound to the first only.
TaskLists(cs) ==
    { <<>>,
      <<Task(cs, FALSE)>>,
      <<Task(cs, TRUE)>>,
      <<Task(<<cs[1]>>, TRUE), Task(cs, FALSE)>>,
      <<Task(cs, FALSE), Task(<<cs[1]>>, FALSE)>> }

InputCount(ts) == Cardinality({j \in 1..Len(ts) : ts[j].Input})

CurTask == tasks[ti]
CurId == <<ci, ti>>

\* Where the loops of lines 189 and 197 go after task number t of the list ts
\* of command c.
LoopNext(c, ts, t) ==
    IF t < Len(ts) THEN [pc |-> "task", ci |-> c, ti |-> t + 1]
    ELSE IF c < input.ncmds THEN [pc |-> "cmd", ci |-> c + 1, ti |-> 0]
    ELSE [pc |-> "ret", ci |-> c, ti |-> 0]

CreateTasksIgnoringFailure ==
    /\ pc = "cmd"
    /\ translated' = translated + 1
    /\ \E failed \in BOOLEAN :
         \E ts \in IF failed THEN {<<>>} ELSE TaskLists(clients) :
           LET n == LoopNext(ci, ts, 0)
           IN /\ trFailed' = failed
              /\ InputCount(ts) + Cardinality(stdinG) <= MaxStdinLive
              /\ tasks' = ts
              /\ pc' = n.pc /\ ci' = n.ci /\ ti' = n.ti
              /\ k' = 1
              /\ doneTasks' = 0
              /\ UNCHANGED <<result, closeCount>>
    /\ writers' = <<>>
    /\ startCalls' = 0
    /\ UNCHANGED <<input, credVars, connFixed, wg, goVars, exitVars,
                   relayVars, ioLogged>>

\* lines 189-194
CreateTasks ==
    /\ pc = "cmd"
    /\ translated' = translated + 1
    /\ \E failed \in BOOLEAN :
         IF failed
         THEN /\ trFailed' = TRUE
              /\ pc' = "returned"
              /\ result' = "creating task failed"
              /\ closeCount' = RunDefers(deferred)
              /\ UNCHANGED <<ci, tasks, ti, k, doneTasks>>
         ELSE \E ts \in TaskLists(clients) :
                LET n == LoopNext(ci, ts, 0)
                IN /\ InputCount(ts) + Cardinality(stdinG) <= MaxStdinLive
                   /\ tasks' = ts
                   /\ pc' = n.pc /\ ci' = n.ci /\ ti' = n.ti
                   /\ k' = 1
                   /\ doneTasks' = 0
                   /\ UNCHANGED <<result, closeCount, trFailed>>
    /\ writers' = <<>>
    /\ startCalls' = 0
    /\ UNCHANGED <<input, credVars, connFixed, wg, goVars, exitVars,
                   relayVars, ioLogged>>

Repeat(c, n) == [j \in 1..n |-> c]

\* The padding decided by the visual length, as the alignment is described.
PaddedByVisualLen(i) ==
    IF input.prefix
    THEN LET p == Prefix(i)
         IN IF p.len < maxLen
            THEN Repeat(" ", maxLen - p.len) \o p.str
            ELSE p.str
    ELSE <<>>

\* lines 203-210 and 286-293: the prefix a client's output is written with.
PaddedPrefix(i) ==
    IF input.prefix
    THEN LET p == Prefix(i)
         IN IF Len(p.str) < maxLen
            THEN Repeat(" ", maxLen - p.len) \o p.str
            ELSE p.str
    ELSE <<>>

Running == [st |-> "run", code |-> 0]
NoProc == [st |-> "none", code |-> 0]
Exited(code) == [st |-> "exit", code |-> code]
Lost == [st |-> "lost", code |-> 0]

\* The exit statuses a task's process is tried with.
ExitStatuses == {0, 2, 15}

CopyOf(c, stream) ==
    [task |-> CurId, unit |-> c, stream |-> stream, prefix |-> PaddedPrefix(c)]

StartOnIgnoringFailure ==
    /\ pc = "task"
    /\ k <= Len(CurTask.Clients)
    /\ LET c == CurTask.Clients[k]
       IN /\ startCalls' = startCalls + 1
          /\ k' = k + 1
          /\ pc' = IF k = Len(CurTask.Clients) THEN "input" ELSE "task"
          /\ \E ok \in BOOLEAN :
               IF ok
               THEN /\ proc' = [proc EXCEPT ![c] = Running]
                    /\ owed' = owed \cup {[task |-> CurId, unit |-> c]}
                    /\ copyG' = copyG \cup {CopyOf(c, "out"), CopyOf(c, "err")}
                    /\ wg' = wg + 2
                    /\ writers' = Append(writers, c)
               ELSE UNCHANGED <<proc, owed, copyG, wg, writers>>
    /\ UNCHANGED <<input, result, closeCount, credVars, connFixed, ci, tasks, ti,
                   translated, trFailed, doneTasks, stdinG, waitG, exitVars,
                   relayVars, ioLogged>>

\* lines 202-240, one client of the task: start the task on it and spawn the
\* copies of its stdout and stderr.
StartOn ==
    /\ pc = "task"
    /\ k <= Len(CurTask.Clients)
    /\ LET c == CurTask.Clients[k]
       IN /\ startCalls' = startCalls + 1
          /\ \E ok \in BOOLEAN :
               IF ok
               THEN /\ proc' = [proc EXCEPT ![c] = Running]
                    /\ owed' = owed \cup {[task |-> CurId, unit |-> c]}
                    /\ copyG' = copyG \cup {CopyOf(c, "out"), CopyOf(c, "err")}
                    /\ wg' = wg + 2
                    /\ writers' = Append(writers, c)
                    /\ k' = k + 1
                    /\ pc' = IF k = Len(CurTask.Clients) THEN "input" ELSE "task"
                    /\ UNCHANGED <<result, closeCount>>
               ELSE /\ pc' = "returned"
                    /\ result' = "task failed"
                    /\ closeCount' = RunDefers(deferred)
                    /\ UNCHANGED <<proc, owed, copyG, wg, writers, k>>
    /\ UNCHANGED <<input, credVars, connFixed, ci, tasks, ti, translated,
                   trFailed, doneTasks, stdinG, waitG, exitVars,
                   relayVars, ioLogged>>

\* lines 258-261: the relay goroutine of the task being run, waiting on its
\* own channel (buf: signals buffered in it, closed: it has been closed).
\* own is task.Clients at that time, last the clients of the last task of
\* the command, the value the loop variable task of line 197 ends with.
NewRelay ==
    [task |-> CurId, own |-> CurTask.Clients, last |-> tasks[Len(tasks)].Clients,
     buf |-> 0, closed |-> FALSE, st |-> "recv", targets |-> <<>>, pos |-> 1,
     failed |-> FALSE]

\* lines 242-275: the shared-input goroutine of a task that has an input, and
\* the signal relay of the task.
SpawnInput ==
    /\ pc = "input"
    /\ pc' = "iowait"
    /\ stdinG' = IF CurTask.Input
                 THEN stdinG \cup {[task |-> CurId, writers |-> writers,
                                    st |-> "copy", pos |-> 1, closed |-> <<>>]}
                 ELSE stdinG
    /\ relayG' = relayG \cup {NewRelay}
    /\ UNCHANGED <<input, result, credVars, connVars, wg, loopVars, proc, copyG,
                   waitG, owed, exitVars, sigsLeft, ioLogged>>

WaitersOf(task) ==
    { [task |-> CurId, unit |-> task.Clients[j], st |-> "wait",
       err |-> [kind |-> "nil", status |-> 0]] : j \in 1..Len(task.Clients) }

IoWaitNoGate ==
    /\ pc = "iowait"
    /\ pc' = "waitwait"
    /\ waitG' = waitG \cup WaitersOf(CurTask)
    /\ wg' = wg + Len(CurTask.Clients)
    /\ UNCHANGED <<input, result, credVars, connVars, loopVars, proc, copyG,
                   stdinG, owed, exitVars,
                   relayVars, ioLogged>>

\* lines 277-305: once the copies are done, one waiting goroutine per client.
IoWait ==
    /\ pc = "iowait"
    /\ wg = 0
    /\ pc' = "waitwait"
    /\ waitG' = waitG \cup WaitersOf(CurTask)
    /\ wg' = wg + Len(CurTask.Clients)
    /\ UNCHANGED <<input, result, credVars, connVars, loopVars, proc, copyG,
                   stdinG, owed, exitVars,
                   relayVars, ioLogged>>

\* A relay waiting on an empty channel.
Idle(g) == g.st = "recv" /\ g.buf = 0

\* lines 311-312: signal.Stop(trap), close(trap).  An idle relay finds its
\* channel closed and returns (lines 264-266); that return touches nothing
\* and is taken together with the close.  A relay that holds a signal or is
\* forwarding one goes on with its channel closed.
CloseTrap(G) ==
    {g \in G : g.closed} \cup
    {[g EXCEPT !.closed = TRUE] : g \in {h \in G : ~h.closed /\ ~Idle(h)}}

WaitDoneNoGate ==
    /\ pc = "waitwait"
    /\ UNCHANGED wg
    /\ LET n == LoopNext(ci, tasks, ti)
       IN pc' = n.pc /\ ci' = n.ci /\ ti' = n.ti
    /\ k' = 1
    /\ writers' = <<>>
    /\ startCalls' = 0
    /\ doneTasks' = doneTasks + 1
    /\ relayG' = CloseTrap(relayG)
    /\ UNCHANGED <<input, result, credVars, connVars, tasks, translated,
                   trFailed, goVars, exitVars, sigsLeft, ioLogged>>

\* lines 307-313 and the loop heads: the task is over.
WaitDone ==
    /\ pc = "waitwait"
    /\ wg = 0
    /\ LET n == LoopNext(ci, tasks, ti)
       IN pc' = n.pc /\ ci' = n.ci /\ ti' = n.ti
    /\ k' = 1
    /\ writers' = <<>>
    /\ startCalls' = 0
    /\ doneTasks' = doneTasks + 1
    /\ relayG' = CloseTrap(relayG)
    /\ UNCHANGED <<input, result, credVars, connVars, wg, tasks, translated,
                   trFailed, goVars, exitVars, sigsLeft, ioLogged>>

\* line 316 and the deferred closes.
ReturnNil ==
    /\ pc = "ret"
    /\ pc' = "returned"
    /\ result' = "nil"
    /\ closeCount' = RunDefers(deferred)
    /\ UNCHANGED <<input, credVars, connFixed, wg, taskVars>>

----------------------------------------------------------------------------
(* The goroutines of a task and the processes they watch.                  *)

\* Goroutines are followed while Run runs: until it returns or the process exits.
Alive == pc \notin {"exited", "returned"}

\* The task's process on unit c ends, with an exit status or without one
\* (the session is lost).
ProcEnd(c) ==
    /\ Alive
    /\ proc[c].st = "run"
    /\ \E p \in {Exited(s) : s \in ExitStatuses} \cup {Lost} :
         proc' = [proc EXCEPT ![c] = p]
    /\ UNCHANGED <<input, pc, result, credVars, connVars, wg, loopVars, copyG,
                   stdinG, waitG, owed, exitVars,
                   relayVars, ioLogged>>

\* What io.Copy returns at lines 221 and 233.
CopyErrs == IF input.ioerr THEN {"nil", "EOF", "io"} ELSE {"nil", "EOF"}

CopyFinishErrorSkipsDone(g) ==
    /\ Alive
    /\ g \in copyG
    /\ copyG' = copyG \ {g}
    /\ \E err \in CopyErrs :
         IF err \notin {"nil", "EOF"}
         THEN ioLogged' = g.task /\ UNCHANGED wg
         ELSE wg' = wg - 1 /\ UNCHANGED ioLogged
    /\ UNCHANGED <<input, pc, result, credVars, connVars, loopVars, proc, stdinG,
                   waitG, owed, exitVars, relayVars>>

\* lines 219-227 and 231-237: a copy ends (end of stream or an I/O error,
\* which is only logged) and its goroutine calls wg.Done().
CopyFinish(g) ==
    /\ Alive
    /\ g \in copyG
    /\ copyG' = copyG \ {g}
    /\ \E err \in CopyErrs :
         ioLogged' = IF err \notin {"nil", "EOF"} THEN g.task ELSE ioLogged
    /\ wg' = wg - 1
    /\ UNCHANGED <<input, pc, result, credVars, connVars, loopVars, proc, stdinG,
                   waitG, owed, exitVars, relayVars>>

ClosedTargetsBoundOnly(g) == g.writers

\* line 251: the units write-close is called on, in order.
ClosedTargets(g) == clients

\* lines 245-249: io.Copy of the shared input returns (end of stream, or an
\* error that is only logged).
StdinCopyEnd(g) ==
    /\ Alive
    /\ g \in stdinG
    /\ g.st = "copy"
    /\ stdinG' = (stdinG \ {g}) \cup
                   {[g EXCEPT !.st = IF ClosedTargets(g) = <<>>
                                     THEN "done" ELSE "closing"]}
    /\ UNCHANGED <<input, pc, result, credVars, connVars, wg, loopVars, proc,
                   copyG, waitG, owed, exitVars,
                   relayVars, ioLogged>>

\* lines 251-253, one iteration: WriteClose on the next unit.
StdinWriteClose(g) ==
    /\ Alive
    /\ g \in stdinG
    /\ g.st = "closing"
    /\ LET targets == ClosedTargets(g)
       IN stdinG' = (stdinG \ {g}) \cup
                      {[g EXCEPT !.pos = g.pos + 1,
                                 !.closed = Append(g.closed, targets[g.pos]),
                                 !.st = IF g.pos = Len(targets)
                                        THEN "done" ELSE "closing"]}
    /\ UNCHANGED <<input, pc, result, credVars, connVars, wg, loopVars, proc,
                   copyG, waitG, owed, exitVars,
                   relayVars, ioLogged>>

\* line 254: the goroutine ends after the loop.
StdinExit(g) ==
    /\ Alive
    /\ g \in stdinG
    /\ g.st = "done"
    /\ stdinG' = stdinG \ {g}
    /\ UNCHANGED <<input, pc, result, credVars, connVars, wg, loopVars, proc,
                   copyG, waitG, owed, exitVars,
                   relayVars, ioLogged>>

\* Client.Wait() (line 285): nil for exit status 0, an *ssh.ExitError for
\* another status, another error when there is no status.
WaitErr(p) ==
    IF p.st = "exit"
    THEN IF p.code = 0
         THEN [kind |-> "nil", status |-> 0]
         ELSE [kind |-> "exit", status |-> p.code]
    ELSE [kind |-> "other", status |-> 0]

WaitReturnNoDone(g) ==
    /\ Alive
    /\ g \in waitG
    /\ g.st = "wait"
    /\ proc[g.unit].st \in {"exit", "lost"}
    /\ LET err == WaitErr(proc[g.unit])
       IN IF err.kind = "nil"
          THEN /\ waitG' = waitG \ {g}
               /\ owed' = owed \ {[task |-> g.task, unit |-> g.unit]}
          ELSE /\ waitG' = (waitG \ {g}) \cup
                             {[g EXCEPT !.st = "failed", !.err = err]}
               /\ UNCHANGED owed
    /\ proc' = [proc EXCEPT ![g.unit] = NoProc]
    /\ UNCHANGED <<input, pc, result, credVars, connVars, wg, loopVars, copyG,
                   stdinG, exitVars, relayVars, ioLogged>>

\* lines 285 and 304: Wait returns once the process is over; a goroutine
\* whose Wait succeeded calls wg.Done().
WaitReturn(g) ==
    /\ Alive
    /\ g \in waitG
    /\ g.st = "wait"
    /\ proc[g.unit].st \in {"exit", "lost"}
    /\ LET err == WaitErr(proc[g.unit])
       IN IF err.kind = "nil"
          THEN /\ waitG' = waitG \ {g}
               /\ wg' = wg - 1
               /\ owed' = owed \ {[task |-> g.task, unit |-> g.unit]}
          ELSE /\ waitG' = (waitG \ {g}) \cup
                             {[g EXCEPT !.st = "failed", !.err = err]}
               /\ UNCHANGED <<wg, owed>>
    /\ proc' = [proc EXCEPT ![g.unit] = NoProc]
    /\ UNCHANGED <<input, pc, result, credVars, connVars, loopVars, copyG, stdinG,
                   exitVars,
                   relayVars, ioLogged>>

\* lines 258-259: an interrupt reaches the process while a channel is
\* registered for it.  The signal package sends without blocking: a signal
\* that finds the channel (capacity 1) full is dropped.
Interrupt ==
    /\ Alive
    /\ sigsLeft > 0
    /\ sigsLeft' = sigsLeft - 1
    /\ \E g \in relayG :
         /\ ~g.closed
         /\ relayG' = (relayG \ {g}) \cup {[g EXCEPT !.buf = 1]}
    /\ UNCHANGED <<input, pc, result, credVars, connVars, wg, loopVars, goVars,
                   exitVars, ioLogged>>

\* The value of the loop variable task (line 197) when a relay started for
\* the task g.task reads it: the task being run while the loop of that
\* command goes on, the command's last task afterwards.
LoopVarClients(g) ==
    IF g.task[1] = ci /\ ti >= 1 THEN tasks[ti].Clients ELSE g.last

\* line 267 reads task.Clients through the loop variable that line 197
\* assigns, without synchronisation: the relay finds the clients of its own
\* task (a variable per iteration) or those of the variable's present value
\* (one variable per loop).
RelayTargets(g) == {g.own, LoopVarClients(g)}

\* lines 262-267: the relay takes a signal from its channel (a closed channel
\* still hands out what it buffers) and begins the loop over task.Clients.
RelayRecv(g) ==
    /\ Alive
    /\ g \in relayG
    /\ g.st = "recv"
    /\ g.buf = 1
    /\ \E targets \in RelayTargets(g) :
         relayG' = (relayG \ {g}) \cup
                     {[g EXCEPT !.buf = 0, !.st = "fwd", !.targets = targets]}
    /\ UNCHANGED <<input, pc, result, credVars, connVars, wg, loopVars, goVars,
                   exitVars, sigsLeft, ioLogged>>

\* lines 267-272, one iteration: Signal on the client g.targets[g.pos]; an
\* error is written to stderr (failed, while the loop runs) and the loop goes
\* on.  After the last client the relay is back at the select of line 262.
RelaySignal(g) ==
    /\ Alive
    /\ g \in relayG
    /\ g.st = "fwd"
    /\ \E ok \in BOOLEAN :
         relayG' = (relayG \ {g}) \cup
                     {IF g.pos = Len(g.targets)
                      THEN [g EXCEPT !.st = "recv", !.targets = <<>>, !.pos = 1,
                                     !.failed = FALSE]
                      ELSE [g EXCEPT !.pos = g.pos + 1,
                                     !.failed = g.failed \/ ~ok]}
    /\ UNCHANGED <<input, pc, result, credVars, connVars, wg, loopVars, goVars,
                   exitVars, sigsLeft, ioLogged>>

\* lines 263-266: the channel is closed and empty, the relay returns.
RelayExit(g) ==
    /\ Alive
    /\ g \in relayG
    /\ g.st = "recv"
    /\ g.buf = 0
    /\ g.closed
    /\ relayG' = relayG \ {g}
    /\ UNCHANGED <<input, pc, result, credVars, connVars, wg, loopVars, goVars,
                   exitVars, sigsLeft, ioLogged>>

ExitCodeUnmapped(err) ==
    IF err.kind = "exit" THEN err.status ELSE 1

\* lines 294-302: the exit code of a failed Wait.
ExitCodeFor(err) ==
    IF err.kind = "exit" /\ err.status # 15 THEN err.status ELSE 1

\* lines 286-302: the failure is printed and the process exits.
ExitProc(g) ==
    /\ Alive
    /\ g \in waitG
    /\ g.st = "failed"
    /\ pc' = "exited"
    /\ exitCode' = ExitCodeFor(g.err)
    /\ exitBy' = [unit |-> g.unit, err |-> g.err, prefix |-> PaddedPrefix(g.unit)]
    /\ UNCHANGED <<input, result, credVars, connVars, wg, loopVars, goVars,
                   relayVars, ioLogged>>

----------------------------------------------------------------------------
NoExit == [unit |-> 0, err |-> [kind |-> "nil", status |-> 0], prefix |-> <<>>]

InitWith(ins) ==
    /\ input \in ins
    /\ pc = "start"
    /\ result = "none"
    /\ publicKeysSigners = input.world.prior
    /\ warnings = 0
    /\ bastion = "nil"
    /\ hostUser = [i \in 1..Len(input.net.Hosts) |-> input.net.Hosts[i].User]
    /\ conn = [i \in 1..Len(input.net.Hosts) |-> "idle"]
    /\ unit = [i \in 1..Len(input.net.Hosts) |-> NoUnit]
    /\ wg = 0
    /\ clientCh = <<>>
    /\ errCh = <<>>
    /\ chClosed = FALSE
    /\ clients = <<>>
    /\ maxLen = 0
    /\ deferred = <<>>
    /\ closeCount = [i \in 1..Len(input.net.Hosts) |-> 0]
    /\ ci = 0
    /\ tasks = <<>>
    /\ ti = 0
    /\ k = 1
    /\ writers = <<>>
    /\ translated = 0
    /\ trFailed = FALSE
    /\ doneTasks = 0
    /\ startCalls = 0
    /\ proc = [i \in 1..Len(input.net.Hosts) |-> NoProc]
    /\ copyG = {}
    /\ stdinG = {}
    /\ waitG = {}
    /\ owed = {}
    /\ exitCode = -1
    /\ exitBy = NoExit
    /\ relayG = {}
    /\ sigsLeft = input.sigs
    /\ ioLogged = <<0, 0>>

Next ==
    \/ RunStart
    \/ DialAgent
    \/ LoadKeys
    \/ ConnectBastion
    \/ SpawnConnect
    \/ \E i \in HostIds : HostBegin(i)
    \/ \E i \in HostIds : HostFinish(i)
    \/ ConnectWait
    \/ Drain
    \/ CreateTasks
    \/ StartOn
    \/ SpawnInput
    \/ IoWait
    \/ WaitDone
    \/ ReturnNil
    \/ \E c \in HostIds : ProcEnd(c)
    \/ \E g \in copyG : CopyFinish(g)
    \/ \E g \in stdinG : StdinCopyEnd(g)
    \/ \E g \in stdinG : StdinWriteClose(g)
    \/ \E g \in stdinG : StdinExit(g)
    \/ \E g \in waitG : WaitReturn(g)
    \/ \E g \in waitG : ExitProc(g)
    \/ Interrupt
    \/ \E g \in relayG : RelayRecv(g)
    \/ \E g \in relayG : RelaySignal(g)
    \/ \E g \in relayG : RelayExit(g)

Init == InitWith(Inputs)

Spec == Init /\ [][Next]_vars

\* The steps of the goroutine that executes Run.
MainStep ==
    \/ RunStart
    \/ DialAgent
    \/ LoadKeys
    \/ ConnectBastion
    \/ SpawnConnect
    \/ ConnectWait
    \/ Drain
    \/ CreateTasks
    \/ StartOn
    \/ SpawnInput
    \/ IoWait
    \/ WaitDone
    \/ ReturnNil

\* One network of two remote hosts behind a relay, one command.
TwoRemote == RunInput(Net(<<HW1, HW22>>, TRUE, "pw", ""), 1, TRUE, PlainWorld)

\* That run, and the run of one command on one host at a terminal that sends
\* interrupts.
FairInputs ==
    { TwoRemote,
      Troubled(RunInput(CredNet("", ""), 1, FALSE, PlainWorld), MaxSignals) }

InitFair == InitWith(FairInputs)

\* The run on two remote hosts at a terminal that sends interrupts, over
\* streams that may fail.
TroubledInputs == { Troubled(TwoRemote, MaxSignals) }

InitTroubled == InitWith(TroubledInputs)

TroubledSpec == InitTroubled /\ [][Next]_vars

\* The scheduler runs every goroutine that can take a step: the one executing
\* Run, the connect workers once started, the completion waits, and the
\* write-close loops.  When a connect returns, a stream ends or a process
\* exits is up to the hosts: no fairness is assumed for them.
FairSpec ==
    /\ InitFair
    /\ [][Next]_vars
    /\ WF_vars(MainStep)
    /\ WF_vars(\E i \in HostIds : HostBegin(i))
    /\ WF_vars(\E g \in waitG : WaitReturn(g))
    /\ WF_vars(\E g \in waitG : ExitProc(g))
    /\ WF_vars(\E g \in stdinG : StdinWriteClose(g) \/ StdinExit(g))

\* The same scheduler, with hosts whose connects return, whose stdout and
\* stderr streams end and whose processes exit.  Nothing is assumed of the
\* shared input, of the terminal or of the signal relays.
TermSpec ==
    /\ FairSpec
    /\ WF_vars(\E i \in HostIds : HostFinish(i))
    /\ WF_vars(\E g \in copyG : CopyFinish(g))
    /\ WF_vars(\E c \in HostIds : ProcEnd(c))

----------------------------------------------------------------------------
(* Properties.                                                             *)

Ended == pc \in {"returned", "exited"}
Range(q) == {q[j] : j \in 1..Len(q)}
Count(q, x) == Cardinality({j \in 1..Len(q) : q[j] = x})

(* C1: when the process is terminated by a unit's failed Wait, the exit    *)
(* code is 1 for a remote exit status of 15, the status itself for any     *)
(* other remote exit status, and 1 for a failure that carries no status.   *)
C1_ExitCodeMapping ==
    pc = "exited" =>
        LET e == exitBy.err
        IN /\ e.kind \in {"exit", "other"}
           /\ (e.kind = "exit" /\ e.status = 15) => exitCode = 1
           /\ (e.kind = "exit" /\ e.status # 15) =>
                 (exitCode = e.status /\ e.status # 0)
           /\ e.kind = "other" => exitCode = 1
           /\ exitCode # 15

C1_Witness ==
    /\ pc = "exited"
    /\ exitBy.err = [kind |-> "exit", status |-> 15]
    /\ exitCode = 1

(* C3: start-task is called for a task only when no copy and no unfinished *)
(* Wait of another (earlier) task is left, and the translator is invoked   *)
(* only when nothing is left and every task of the command before has      *)
(* completed.                                                              *)
Pending == owed \cup {[task |-> g.task, unit |-> g.unit] : g \in copyG}

C3_StrictSequencing ==
    [][ /\ \A o \in owed' \ owed : \A p \in Pending : p.task = o.task
        /\ translated' # translated =>
              (Pending = {} /\ waitG = {} /\ doneTasks = Len(tasks)) ]_vars

C3_Witness ==
    /\ ci = 2
    /\ ti = 2
    /\ \E o \in owed : o.task = <<2, 2>>

(* C4: with a relay, no per-host connect begins before the relay is        *)
(* connected; if the relay's connect fails no per-host worker exists and   *)
(* Run has returned the relay error.                                       *)
C4_RelayFirst ==
    Net0.Bastion =>
        /\ (\E i \in HostIds : conn[i] # "idle") => bastion = "connected"
        /\ bastion = "failed" =>
              /\ \A i \in HostIds : conn[i] = "idle" /\ unit[i] = NoUnit
              /\ pc = "returned"
              /\ result = "connecting to bastion failed"

C4_Witness ==
    /\ Net0.Bastion
    /\ \E i \in HostIds : conn[i] = "ok" /\ unit[i].via = "bastion"

(* C5: once the connect of a host has failed, the translator is never      *)
(* invoked, no task is started on any unit, and Run ends by returning the  *)
(* connect error.                                                          *)
C5_AtomicConnect ==
    (\E i \in HostIds : conn[i] = "failed") =>
        /\ translated = 0
        /\ startCalls = 0
        /\ owed = {}
        /\ pc \in {"wgwait", "drain", "returned"}
        /\ pc = "returned" => result = "connecting to clients failed"

C5_Witness ==
    /\ pc = "returned"
    /\ \E i, j \in HostIds : conn[i] = "failed" /\ conn[j] = "ok"

(* C2 (as claimed): in a task bound to two units, once one unit's process  *)
(* has exited with status 2 while the other unit's process still runs and  *)
(* streams, the process terminates with exit code 2 even if those streams  *)
(* never close.                                                            *)
Streaming(b) == \E g \in copyG : g.unit = b

BothBound ==
    /\ pc \in {"task", "input", "iowait", "waitwait"}
    /\ Len(CurTask.Clients) = 2

ExitedWith2(a) == BothBound /\ proc[a] = Exited(2)

StillStreaming(b) == Streaming(b) /\ proc[b] = Running

C2_Original ==
    /\ (ExitedWith2(1) /\ StillStreaming(2)) ~>
           ((pc = "exited" /\ exitCode = 2) \/ ~StillStreaming(2))
    /\ (ExitedWith2(2) /\ StillStreaming(1)) ~>
           ((pc = "exited" /\ exitCode = 2) \/ ~StillStreaming(1))

(* C2 (amended): no Wait is called and the process does not terminate      *)
(* while a stream copy of the task is running; once the copies are done    *)
(* and a unit's Wait has reported status 2, the process terminates without *)
(* the other unit's Wait having to return, with exit code 2 when that      *)
(* failure is the one that ends it.                                        *)
FailedWith2(a) ==
    \E g \in waitG :
        g.unit = a /\ g.st = "failed" /\ g.err = [kind |-> "exit", status |-> 2]

C2_FailFastAfterStreams ==
    /\ []((waitG # {} \/ pc = "exited") => copyG = {})
    /\ FailedWith2(1) ~> (pc = "exited" /\ (exitCode = 2 \/ exitBy.unit # 1))
    /\ FailedWith2(2) ~> (pc = "exited" /\ (exitCode = 2 \/ exitBy.unit # 2))

C2_Witness ==
    /\ pc = "exited"
    /\ exitCode = 2
    /\ copyG = {}
    /\ \E g \in waitG : g.st = "wait" /\ proc[g.unit].st = "run"

(* C6: with prefix display on, the prefix of every unit's output (stream   *)
(* copies and the failure message) is the unit's prefix left-padded to the *)
(* widest visual length among the connected units.                         *)
RECURSIVE VisualLen(_)
VisualLen(str) ==
    IF str = <<>> THEN 0
    ELSE IF Head(str) = "ESC"
         THEN VisualLen(SubSeq(str, Len(ResetColor) + 1, Len(str)))
         ELSE 1 + VisualLen(Tail(str))

Connected == {i \in HostIds : conn[i] = "ok"}

Widest ==
    CHOOSE m \in {Prefix(i).len : i \in Connected} :
        \A i \in Connected : Prefix(i).len <= m

Aligned(i, str) ==
    /\ VisualLen(str) = Widest
    /\ str = Repeat(" ", Widest - Prefix(i).len) \o Prefix(i).str

C6_PrefixAligned ==
    input.prefix =>
        /\ \A g \in copyG : Aligned(g.unit, g.prefix)
        /\ pc = "exited" => Aligned(exitBy.unit, exitBy.prefix)

(* C7: the goroutine of a task's shared input calls write-close on every   *)
(* connected unit of the run exactly once, bound to the task or not, after *)
(* (and never before) the copy has completed; only a task with an input    *)
(* has such a goroutine.                                                   *)
C7_WriteCloseScope ==
    \A g \in stdinG :
        /\ g.st = "copy" => g.closed = <<>>
        /\ \A i \in HostIds : Count(g.closed, i) <= 1
        /\ Range(g.closed) \subseteq Connected
        /\ g.st = "done" => \A i \in Connected : Count(g.closed, i) = 1
        /\ g.task[1] = ci => tasks[g.task[2]].Input

C7_Witness ==
    \E g \in stdinG :
        /\ g.st = "done"
        /\ \E i \in Connected : i \notin Range(g.writers) /\ Count(g.closed, i) = 1

(* C8: a host named "localhost" or whose name starts with "127." gets a    *)
(* local unit that is not connected through the relay, whatever user,      *)
(* password or relay is configured; any other host gets a remote unit.     *)
NamedLocal(name) ==
    \/ name = <<"l","o","c","a","l","h","o","s","t">>
    \/ /\ Len(name) >= 4
       /\ name[1] = "1" /\ name[2] = "2" /\ name[3] = "7" /\ name[4] = "."

C8_LocalClassification ==
    \A i \in HostIds :
        unit[i] # NoUnit =>
            IF NamedLocal(Net0.Hosts[i].Hostname)
            THEN unit[i].kind = "local" /\ unit[i].via = "local"
            ELSE unit[i].kind = "remote" /\ unit[i].via \in {"direct", "bastion"}

C8_Witness ==
    \E i \in HostIds :
        /\ Net0.Hosts[i].Hostname # Localhost
        /\ unit[i].kind = "local"
        /\ conn[i] = "ok"
        /\ bastion = "connected"
        /\ Net0.Password # ""
        /\ Net0.Hosts[i].User # <<>>

(* C9: with a reachable agent the signer list after resolution starts with *)
(* exactly the agent's signers, whatever it held before; with an identity  *)
(* file too, a key that parses (directly, or with the network password as  *)
(* passphrase) adds exactly one signer after them, and one that does not   *)
(* leaves the agent's list, costs exactly one warning and does not end the *)
(* run.                                                                    *)
Resolved == pc \notin {"start", "agent", "keys"} /\ input.ncmds > 0

KeyUsable(f, password) ==
    f.exists /\ f.valid /\ (f.pass = "" \/ f.pass = password)

C9_CredentialPrecedence ==
    (Resolved /\ input.world.agent) =>
        LET A == input.world.agentSigners
            S == publicKeysSigners
        IN /\ Len(S) >= Len(A)
           /\ SubSeq(S, 1, Len(A)) = A
           /\ Net0.IdentityFile # "" =>
                 IF KeyUsable(input.world.idFile, Net0.Password)
                 THEN S = A \o <<input.world.idFile.id>> /\ warnings = 0
                 ELSE S = A /\ warnings = 1
           /\ (pc = "returned" /\ warnings = 1) =>
                 (translated > 0 \/ \E i \in HostIds : conn[i] = "failed")

C9_Witness ==
    /\ Resolved
    /\ input.world.agent
    /\ input.world.prior # <<>>
    /\ input.world.idFile.pass # ""
    /\ publicKeysSigners = <<"a1", "a2", "key">>

(* C10: when a run that got past the connect phase ends, every connected   *)
(* remote unit has been closed exactly once, and none is closed before.    *)
C10_ReleasedAtEnd ==
    /\ (Ended /\ chClosed) =>
          \A i \in Connected : unit[i].kind = "remote" => closeCount[i] = 1
    /\ ~Ended => \A i \in HostIds : closeCount[i] = 0

(* The same for the runs that end by returning.                            *)
C10_ReleasedAtReturn ==
    /\ (pc = "returned" /\ chClosed) =>
          \A i \in Connected : unit[i].kind = "remote" => closeCount[i] = 1
    /\ ~Ended => \A i \in HostIds : closeCount[i] = 0

(* C13: when start-task fails on the k-th bound unit, Run has returned the   *)
(* error at once: exactly k start calls were made for the task (none on a    *)
(* later unit), no shared-input goroutine and no completion wait exists for  *)
(* the task, and nothing of a later task or command has been started.        *)
StartFailed == startCalls > Len(writers)

C13_StartFailureAborts ==
    StartFailed =>
        /\ pc = "returned"
        /\ result = "task failed"
        /\ startCalls = k
        /\ Len(writers) = k - 1
        /\ \A o \in owed :
              o.task = CurId /\ \E j \in 1..(k - 1) : CurTask.Clients[j] = o.unit
        /\ \A g \in stdinG \cup waitG : g.task # CurId
        /\ translated = ci

C13_Witness ==
    /\ StartFailed
    /\ k = 2
    /\ owed # {}
    /\ ti < Len(tasks)
    /\ ci < input.ncmds

(* C14: when the Task Translator fails for command k, Run has returned the   *)
(* error at once: the translator was called k times, no task of command k    *)
(* was started, and every task of the command before has run to completion   *)
(* (no copy, no wait and no process of it is left).                          *)
C14_TranslatorFailureAborts ==
    trFailed =>
        /\ pc = "returned"
        /\ result = "creating task failed"
        /\ translated = ci
        /\ startCalls = 0
        /\ owed = {} /\ copyG = {} /\ waitG = {}
        /\ \A c \in HostIds : proc[c] = NoProc
        /\ ci > 1 => doneTasks = Len(tasks)

C14_Witness ==
    /\ trFailed
    /\ ci = 2
    /\ doneTasks = 2

(* C17: while the connect workers run, each finished worker has sent        *)
(* exactly one value, its client on the client channel or its error on the *)
(* error channel, never both; a worker that is about to send finds room in *)
(* both channels; and the channels are closed and read only when every     *)
(* worker has finished.                                                    *)
Finished(i) == conn[i] \in {"ok", "failed"}

C17_ConnectFanIn ==
    /\ \A i \in HostIds :
          /\ Count(clientCh \o clients, i) = IF conn[i] = "ok" THEN 1 ELSE 0
          /\ ~chClosed => Count(errCh, i) = IF conn[i] = "failed" THEN 1 ELSE 0
          /\ conn[i] = "connecting" =>
                (Len(clientCh) < NHosts /\ Len(errCh) < NHosts)
    /\ (chClosed \/ clients # <<>>) => \A i \in HostIds : Finished(i)

C17_Witness ==
    /\ pc = "drain"
    /\ chClosed
    /\ Len(clientCh) = 1
    /\ Len(errCh) = 1

(* C19: when every host's connect succeeded, the unit list the Task         *)
(* Translator is called with holds every host exactly once: its length is  *)
(* the number of hosts and no host is missing or duplicated.               *)
C19_OneUnitPerHost ==
    ((pc = "cmd" \/ translated > 0) /\ \A i \in HostIds : conn[i] = "ok") =>
        /\ Len(clients) = NHosts
        /\ \A i \in HostIds : Count(clients, i) = 1

(* The units in another order than the hosts'.                              *)
C19_Witness ==
    /\ translated > 0
    /\ \A i \in HostIds : conn[i] = "ok"
    /\ clients = <<2, 1>>

(* C20: a run with no command returns the error at once: the signer list    *)
(* is the one it was called with, nothing was written, no relay and no host *)
(* was connected to, and no task was translated or started.                 *)
C20_EmptyCommandList ==
    input.ncmds = 0 =>
        /\ pc \in {"start", "returned"}
        /\ pc = "returned" => result = "no commands to be run"
        /\ publicKeysSigners = input.world.prior
        /\ warnings = 0
        /\ bastion = "nil"
        /\ \A i \in HostIds : conn[i] = "idle" /\ unit[i] = NoUnit
        /\ wg = 0
        /\ translated = 0
        /\ startCalls = 0 /\ owed = {}

C20_Witness ==
    /\ input.ncmds = 0
    /\ pc = "returned"
    /\ input.world.agent
    /\ input.world.idFile.exists
    /\ input.world.prior # <<>>
    /\ input.net.Bastion

(* C15: a stdout or stderr copy that ends with an I/O error is only logged:  *)
(* the step leaves Run where it is, returns nothing and still calls         *)
(* wg.Done(); and in the completion-wait phase of that task every bound     *)
(* unit has its Wait goroutine, or its Wait has already succeeded.          *)
C15_StreamErrorNotFatal ==
    /\ [][ ioLogged' # ioLogged =>
             /\ pc' = pc /\ result' = result
             /\ wg' = wg - 1
             /\ waitG' = waitG /\ owed' = owed ]_vars
    /\ []( (ioLogged = CurId /\ pc = "waitwait") =>
              \A j \in 1..Len(CurTask.Clients) :
                 LET c == CurTask.Clients[j]
                 IN \/ \E g \in waitG : g.task = CurId /\ g.unit = c
                    \/ [task |-> CurId, unit |-> c] \notin owed )

(* A stream of the first task failed, every Wait of it succeeded and the    *)
(* run is in the completion-wait phase of the second task.                 *)
C15_Witness ==
    /\ ioLogged = <<1, 1>>
    /\ CurId = <<1, 2>>
    /\ pc = "waitwait"
    /\ Cardinality(waitG) = Len(CurTask.Clients)

(* A task other than the one of the shared-input goroutine g has been       *)
(* started (tasks run one after the other: it is a later one).              *)
LaterStarted(g) == \E o \in owed : o.task # g.task

C18_Termination ==
    /\ <>Ended
    /\ [](\A g \in waitG :
            g.st = "wait" =>
               /\ g.task = CurId
               /\ pc \in {"waitwait", "exited"}
               /\ \A o \in owed : o.task = g.task)

(* A run of two tasks that returned nil.                                    *)
C18_Witness ==
    /\ pc = "returned"
    /\ result = "nil"
    /\ doneTasks = 2
    /\ NHosts = 2

(* C11: a relay that has taken an interrupt from its channel forwards it    *)
(* to the units bound to its task, each of them once and no other: the      *)
(* list it walks is that of its task, whatever the Signal calls return.     *)
C11_SignalFanOut ==
    \A g \in relayG :
        g.st = "fwd" => (g.targets = g.own /\ g.pos \in 1..Len(g.own))

(* The relay g makes a Signal call in this step.                            *)
Signals(g) ==
    /\ g.st = "fwd"
    /\ \E h \in relayG' : h.task = g.task /\ (h.pos # g.pos \/ h.st # g.st)

(* C12: every Signal call is made by the relay of a task whose channel has  *)
(* not been closed yet (the task is running), on a unit bound to that task. *)
C12_SignalScope ==
    [][ \A g \in relayG :
          Signals(g) => (~g.closed /\ g.targets[g.pos] \in Range(g.own)) ]_vars
====
